---- MODULE Spec2Model ----
(***************************************************************************)
(* The authenticated dispatch layer of digikey/v4/api.py: DigikeyApi (the  *)
(* seven public operations), _DigikeyApiWrapper.__init__ (family           *)
(* configuration and token acquisition) and                                *)
(* _DigikeyApiWrapper.call_api_function (invocation, metadata extraction,  *)
(* error translation).                                                     *)
(*                                                                         *)
(* One public call is a sequence of steps that are separated by blocking   *)
(* network I/O:                                                            *)
(*   idle --(public operation / direct construction)--> token              *)
(*        --(TokenHandler.get_access_token)--> constructed                 *)
(*        --(call_api_function)--> done --(caller continues)--> idle       *)
(* A step that raises goes straight to done with the exception in result.  *)
(***************************************************************************)
EXTENDS Integers, Sequences, FiniteSets, Bags, TLC

VARIABLES
    client,        \* the DigikeyApi object's fields (api.py 220-223)
    tokenStore,    \* persisted token per environment (sandbox flag) of the client's credentials
    pc,            \* position of the current public call
    ctorArgs,      \* the wrapped function name and module the current call gave to _DigikeyApiWrapper
    wrapper,       \* the _DigikeyApiWrapper of the current call (self.*, configuration.host)
    tokenArgs,     \* the arguments the current call gave to TokenHandler(...)
    tokenRaised,   \* the exception get_access_token raised in this call (NoExc: none)
    api_limits,    \* the caller's api_limits argument, as it is now
    status,        \* the caller's status argument, as it is now
    api_limits0,   \* the caller's api_limits argument as it was passed in
    status0,       \* the caller's status argument as it was passed in
    outcome,       \* what the underlying generated operation did in this call
    result,        \* what reached the caller of the public operation
    log,           \* the records this call handed to logger, in order
    tokenCalls,    \* get_access_token calls started in this call
    exchanges,     \* round trips to the authorization endpoint in this call
    invocations,   \* invocations of the underlying operation in this call
    cachedAtStart  \* whether the store held a non-expired token for the client's key when the call began

vars == <<client, tokenStore, pc, ctorArgs, wrapper, tokenArgs, tokenRaised, api_limits, status,
          api_limits0, status0, outcome, result, log, tokenCalls, exchanges, invocations,
          cachedAtStart>>

----------------------------------------------------------------------------
(* Bounds *)

\* longest response-header value explored
MaxLen == 2

\* characters of a response-header value: a digit, a sign, a non-numeric character, a blank
Alphabet == {"1", "-", "x", " "}

Strings(n) == UNION {[1..k -> Alphabet] : k \in 0..n}

----------------------------------------------------------------------------
(* Python values *)

None == "None"

\* a value stored in a dict: None or an int
PyNone == [t |-> "None", n |-> 0]
IntVal(n) == [t |-> "int", n |-> n]

\* an Optional[Dict] argument: None (or anything that is no dict), or a dict
NotADict == [isdict |-> FALSE, d |-> <<>>]
Dict(d) == [isdict |-> TRUE, d |-> d]
DictSet(d, k, v) == [x \in (DOMAIN d) \cup {k} |-> IF x = k THEN v ELSE d[x]]

NoExc == [cls |-> "", status |-> 0, msg |-> ""]
Exc(cls, msg) == [cls |-> cls, status |-> 0, msg |-> msg]

DigitChars == {"0", "1", "2", "3", "4", "5", "6", "7", "8", "9"}
DigitVal == ("0" :> 0) @@ ("1" :> 1) @@ ("2" :> 2) @@ ("3" :> 3) @@ ("4" :> 4) @@
            ("5" :> 5) @@ ("6" :> 6) @@ ("7" :> 7) @@ ("8" :> 8) @@ ("9" :> 9)
Whitespace == {" "}

\* the number of leading and of trailing whitespace characters of s
Leading(s) == Cardinality({i \in 1..Len(s) : \A j \in 1..i : s[j] \in Whitespace})
Trailing(s) == Cardinality({i \in 1..Len(s) : \A j \in i..Len(s) : s[j] \in Whitespace})

StripBy(s, lead, trail) ==
    IF lead = Len(s) THEN <<>> ELSE SubSeq(s, lead + 1, Len(s) - trail)

\* str.strip()
Strip(s) == StripBy(s, Leading(s), Trailing(s))

\* digits, with single underscores allowed between them
WellFormedDigits(b) ==
    /\ Len(b) > 0
    /\ \A i \in 1..Len(b) : b[i] \in DigitChars \cup {"_"}
    /\ b[1] # "_" /\ b[Len(b)] # "_"
    /\ \A i \in 1..(Len(b) - 1) : ~(b[i] = "_" /\ b[i + 1] = "_")

\* 10 ** k
Pow10(k) == Cardinality([1..k -> 0..9])

NotUnderscore(c) == c # "_"

\* the sum of digit * 10 ** place over the digits d
PlaceSum(d, places) ==
    BagCardinality([i \in places |-> DigitVal[d[i]] * Pow10(Len(d) - i)])

DigitsOnly(b) == SelectSeq(b, NotUnderscore)

NonZeroPlaces(d) == {i \in 1..Len(d) : DigitVal[d[i]] > 0}

\* the decimal value of well-formed digits
DecVal(b) == PlaceSum(DigitsOnly(b), NonZeroPlaces(DigitsOnly(b)))

IsSigned(t) == t # <<>> /\ t[1] \in {"+", "-"}
IsNegative(t) == t # <<>> /\ t[1] = "-"
Unsigned(t) == IF IsSigned(t) THEN Tail(t) ELSE t

PyIntParts(negative, body) ==
    IF ~WellFormedDigits(body) THEN [ok |-> FALSE, val |-> 0]
    ELSE [ok |-> TRUE, val |-> IF negative THEN 0 - DecVal(body) ELSE DecVal(body)]

PyIntStripped(t) == PyIntParts(IsNegative(t), Unsigned(t))

\* int(str): ok = FALSE is ValueError
PyInt(s) == PyIntStripped(Strip(s))

----------------------------------------------------------------------------
(* API families *)

ProductInformation == "digikey.v4.productinformation"
OrderSupport == "digikey.v4.ordersupport"
BatchProductDetails == "digikey.v4.batchproductdetails"
\* a module that is none of the three families
OtherModule == "digikey.oauth.oauth2"

Families == {ProductInformation, OrderSupport, BatchProductDetails}
Modules == Families \cup {OtherModule}

apinames ==
    (ProductInformation :> "products") @@ (OrderSupport :> "OrderDetails") @@
    (BatchProductDetails :> "BatchSearch")

apiclasses ==
    (ProductInformation :> "ProductSearchApi") @@ (OrderSupport :> "OrderDetailsApi") @@
    (BatchProductDetails :> "BatchSearchApi")

\* the if/elif/else chain that picks the Configuration class
ConfigurationFor(module) ==
    CASE module = ProductInformation -> [raised |-> NoExc, cls |-> "ProductInfoConfiguration"]
      [] module = OrderSupport -> [raised |-> NoExc, cls |-> "OrderDetailsConfiguration"]
      [] module = BatchProductDetails -> [raised |-> NoExc, cls |-> "BatchSearchConfiguration"]
      [] OTHER -> [raised |-> Exc("ValueError", "Invalid module provided"), cls |-> ""]

\* the seven public operations: wrapped function name and family
PublicOperations ==
    ("keyword_search" :> [fn |-> "keyword_search_with_http_info", module |-> ProductInformation]) @@
    ("product_details" :> [fn |-> "product_details_with_http_info", module |-> ProductInformation]) @@
    ("digi_reel_pricing" :> [fn |-> "digi_reel_pricing_with_http_info", module |-> ProductInformation]) @@
    ("suggested_parts" :> [fn |-> "suggested_parts_with_http_info", module |-> ProductInformation]) @@
    ("status_salesorder_id" :> [fn |-> "order_status_with_http_info", module |-> OrderSupport]) @@
    ("salesorder_history" :> [fn |-> "order_history_with_http_info", module |-> OrderSupport]) @@
    ("batch_product_details" :> [fn |-> "batch_product_details_with_http_info", module |-> BatchProductDetails])

\* the operations a family's generated client has
FunctionsOf(module) ==
    {PublicOperations[o].fn : o \in {p \in DOMAIN PublicOperations : PublicOperations[p].module = module}}

ProductionBase == "https://api.digikey.com"
SandboxBase == "https://sandbox-api.digikey.com"

\* the sandbox host never substituted
HostForProductionOnly(apiname, client_sandbox) == <<ProductionBase, apiname, "v4">>

\* configuration.host: f"{base}/{apiname}/v4", as its three segments
HostFor(apiname, client_sandbox) ==
    IF client_sandbox THEN <<SandboxBase, apiname, "v4">> ELSE <<ProductionBase, apiname, "v4">>

\* the sandbox flag not handed on to TokenHandler
SelfSandboxDropped(client_sandbox) == FALSE

\* self.sandbox as handed to TokenHandler
SelfSandbox(client_sandbox) == IF client_sandbox THEN TRUE ELSE client_sandbox

----------------------------------------------------------------------------
(* The underlying generated operation, at its boundary *)

LimitKey == "X-RateLimit-Limit"
RemainingKey == "X-RateLimit-Remaining"

\* response headers: each rate-limit field absent or a string
Headers == UNION {[K -> Strings(MaxLen)] : K \in SUBSET {LimitKey, RemainingKey}}

Payloads == {"payload"}
SuccessCodes == {200}
ErrorCodes == {404, 429}

\* the ApiException class of a family's generated rest module
RestApiException(module) ==
    CASE module = ProductInformation -> "digikey.v4.productinformation.rest.ApiException"
      [] module = OrderSupport -> "digikey.v4.ordersupport.rest.ApiException"
      [] module = BatchProductDetails -> "digikey.v4.batchproductdetails.rest.ApiException"

\* the one class api.py imports and names in its except clause
ProductInfoApiException == "digikey.v4.productinformation.rest.ApiException"

NoOutcome == [kind |-> "none", payload |-> "", status_code |-> 0, headers |-> <<>>, exc |-> NoExc]

\* what func(*args, client_id, authorization=..., **kwargs) can do
Outcomes(module) ==
    {[kind |-> "returns", payload |-> p, status_code |-> c, headers |-> h, exc |-> NoExc] :
        p \in Payloads, c \in SuccessCodes, h \in Headers}
    \cup {[kind |-> "raises", payload |-> "", status_code |-> 0, headers |-> <<>>,
           exc |-> [cls |-> RestApiException(module), status |-> c, msg |-> "api"]] :
        c \in ErrorCodes}
    \cup {[kind |-> "raises", payload |-> "", status_code |-> 0, headers |-> <<>>,
           exc |-> Exc("urllib3.exceptions.MaxRetryError", "unreachable")]}
    \cup {[kind |-> "malformed", payload |-> "", status_code |-> 0, headers |-> <<>>,
           exc |-> NoExc]}

----------------------------------------------------------------------------
(* _DigikeyApiWrapper *)

LogRec(level, msg, op) == [level |-> level, msg |-> msg, op |-> op]

\* except KeyError alone
RateLimitCaughtKeyErrorOnly == {"KeyError"}

\* except (KeyError, ValueError) of _remaining_requests
RateLimitCaught == {"KeyError", "ValueError"}

\* the except block resetting the remaining count alone
RemainingRequestsExceptPartial(al) ==
    IF al.isdict THEN Dict(DictSet(al.d, "api_requests_remaining", PyNone)) ELSE al

\* the except block of _remaining_requests
RemainingRequestsExcept(al) ==
    IF al.isdict
    THEN Dict(DictSet(DictSet(al.d, "api_requests_limit", PyNone),
                      "api_requests_remaining", PyNone))
    ELSE al

\* `thrown` raised in the try block of _remaining_requests, the sink being al by then
RemainingRequestsRaise(thrown, al) ==
    IF thrown \in RateLimitCaught
    THEN [api_limits |-> RemainingRequestsExcept(al), raised |-> NoExc,
          log |-> <<LogRec("debug", "No api limits returned", "")>>]
    ELSE [api_limits |-> al, raised |-> Exc(thrown, "rate limit"), log |-> <<>>]

RemainingRequestsDone(al) ==
    [api_limits |-> al, raised |-> NoExc, log |-> <<LogRec("debug", "Requests remaining", "")>>]

\* the two header fields stored under each other's key
RemainingRequestsStoreSwapped(al, lim, rem) ==
    IF ~lim.ok THEN RemainingRequestsRaise("ValueError", al)
    ELSE IF ~rem.ok
    THEN RemainingRequestsRaise("ValueError",
                                Dict(DictSet(al.d, "api_requests_limit", IntVal(rem.val))))
    ELSE RemainingRequestsDone(
             Dict(DictSet(DictSet(al.d, "api_requests_limit", IntVal(rem.val)),
                          "api_requests_remaining", IntVal(lim.val))))

\* the two assignments into a dict api_limits, lim and rem being int(rate_limit) and
\* int(rate_limit_rem)
RemainingRequestsStore(al, lim, rem) ==
    IF ~lim.ok THEN RemainingRequestsRaise("ValueError", al)
    ELSE IF ~rem.ok
    THEN RemainingRequestsRaise("ValueError",
                                Dict(DictSet(al.d, "api_requests_limit", IntVal(lim.val))))
    ELSE RemainingRequestsDone(
             Dict(DictSet(DictSet(al.d, "api_requests_limit", IntVal(lim.val)),
                          "api_requests_remaining", IntVal(rem.val))))

\* the try block once both header fields were read
RemainingRequestsTry(al, rate_limit, rate_limit_rem) ==
    IF al.isdict
    THEN RemainingRequestsStore(al, PyInt(rate_limit), PyInt(rate_limit_rem))
    ELSE RemainingRequestsDone(al)

\* _remaining_requests(header, api_limits): the sink afterwards, the records logged,
\* and the exception that left the function (NoExc: none)
_remaining_requests(header, al) ==
    IF LimitKey \in DOMAIN header /\ RemainingKey \in DOMAIN header
    THEN RemainingRequestsTry(al, header[LimitKey], header[RemainingKey])
    ELSE RemainingRequestsRaise("KeyError", al)

\* _store_api_statuscode(statuscode, status)
_store_api_statuscode(statuscode, st) ==
    [status |-> IF st.isdict THEN Dict(DictSet(st.d, "code", IntVal(statuscode))) ELSE st,
     log |-> <<LogRec("debug", "API returned code", "")>>]

NoResult == [kind |-> "none", payload |-> "", exc |-> NoExc, at |-> ""]
Returned(p) == [kind |-> "returned", payload |-> p, exc |-> NoExc, at |-> "call_api_function"]
Raised(e, at) == [kind |-> "raised", payload |-> "", exc |-> e, at |-> at]

ApiExceptionStored(e, al, ss, lg) ==
    [result |-> Raised(e, "call_api_function"), api_limits |-> al, status |-> ss.status,
     log |-> lg \o ss.log, invoked |-> 1]

\* except ProductInfoApiException as e: log, store e.status, raise
HandleApiException(w, e, al, st, lg) ==
    ApiExceptionStored(
        e, al, _store_api_statuscode(e.status, st),
        lg \o <<LogRec("error", "Exception when calling", w.wrapped_function_name)>>)

\* except Exception re-raising without a log record
HandleUnexpectedSilent(w, e, al, st, lg) ==
    [result |-> Raised(e, "call_api_function"), api_limits |-> al, status |-> st,
     log |-> lg, invoked |-> 1]

\* except Exception writing a status code into the sink
HandleUnexpectedStoresStatus(w, e, al, st, lg) ==
    [result |-> Raised(e, "call_api_function"),
     api_limits |-> al,
     status |-> _store_api_statuscode(e.status, st).status,
     log |-> lg \o <<LogRec("error", "Unexpected exception when calling", w.wrapped_function_name)>>,
     invoked |-> 1]

\* except Exception as e: log, raise
HandleUnexpected(w, e, al, st, lg) ==
    [result |-> Raised(e, "call_api_function"),
     api_limits |-> al,
     status |-> st,
     log |-> lg \o <<LogRec("error", "Unexpected exception when calling", w.wrapped_function_name)>>,
     invoked |-> 1]

\* the two except clauses of call_api_function, in order
ExceptClauses(w, e, al, st, lg) ==
    IF e.cls = ProductInfoApiException
    THEN HandleApiException(w, e, al, st, lg)
    ELSE HandleUnexpected(w, e, al, st, lg)

\* the value call_api_function returns from a well-formed response
ReturnValue(oc) == oc.payload

\* a try block that stopped with `e` raised (NoExc: it reached its return statement)
TryState(e, value, al, st, lg) ==
    [raised |-> e, value |-> value, api_limits |-> al, status |-> st, log |-> lg]

TryStored(oc, rr, ss, lg) ==
    TryState(NoExc, ReturnValue(oc), rr.api_limits, ss.status, lg \o rr.log \o ss.log)

\* the try block from its second extraction on
TryExtracted(oc, st, rr, lg) ==
    IF rr.raised # NoExc
    THEN TryState(rr.raised, "", rr.api_limits, st, lg \o rr.log)
    ELSE TryStored(oc, rr, _store_api_statuscode(oc.status_code, st), lg)

\* the try block of call_api_function for one outcome of func
TryBlock(oc, al, st, lg) ==
    CASE oc.kind = "raises" -> TryState(oc.exc, "", al, st, lg)
      [] oc.kind = "malformed" ->
             \* api_response[2] on something that is no 3-tuple
             TryState(Exc("IndexError", "tuple index out of range"), "", al, st, lg)
      [] oc.kind = "returns" -> TryExtracted(oc, st, _remaining_requests(oc.headers, al), lg)

TryOrExcept(w, tb) ==
    IF tb.raised = NoExc
    THEN [result |-> Returned(tb.value), api_limits |-> tb.api_limits, status |-> tb.status,
          log |-> tb.log, invoked |-> 1]
    ELSE ExceptClauses(w, tb.raised, tb.api_limits, tb.status, tb.log)

\* call_api_function(*args, api_limits, status, **kwargs) for one outcome of func
call_api_function(w, oc, al, st) ==
    TryOrExcept(w, TryBlock(oc, al, st,
                            <<LogRec("debug", "CALL wrapped", w.wrapped_function_name)>>))

NoWrapper ==
    [wrapped_function_name |-> "", module |-> "", apiclass |-> "", host |-> <<>>,
     sandbox |-> FALSE, x_digikey_client_id |-> "", authorized |-> FALSE]

ConfigurationError(e) == [raised |-> e, w |-> NoWrapper]

\* __init__ up to the TokenHandler call: the exception raised (NoExc: none) and self
WrapperConfigure(fn, module, c) ==
    IF module \notin DOMAIN apinames
    THEN ConfigurationError(Exc("KeyError", module))
    ELSE IF ConfigurationFor(module).raised # NoExc
    THEN ConfigurationError(ConfigurationFor(module).raised)
    ELSE IF c.client_id = None \/ c.client_secret = None
    THEN ConfigurationError(
             Exc("DigikeyError",
                 "Please provide a valid DIGIKEY_CLIENT_ID and DIGIKEY_CLIENT_SECRET"))
    ELSE [raised |-> NoExc,
          w |-> [wrapped_function_name |-> fn, module |-> module,
                 apiclass |-> apiclasses[module],
                 host |-> HostFor(apinames[module], c.client_sandbox),
                 sandbox |-> SelfSandbox(c.client_sandbox),
                 x_digikey_client_id |-> c.client_id, authorized |-> FALSE]]

----------------------------------------------------------------------------
(* TokenHandler and TokenStore, at their boundary *)

NetOutcomes == {"ok", "rejected", "unreachable"}

\* get_access_token for the token store entry of `key`, with what the authorization
\* endpoint would answer
get_access_token(store, key, net) ==
    IF store[key] = "valid"
    THEN [raised |-> NoExc, store |-> store, exchanged |-> 0]
    ELSE IF net = "ok"
    THEN [raised |-> NoExc, store |-> [store EXCEPT ![key] = "valid"], exchanged |-> 1]
    ELSE [raised |-> Exc("AuthenticationError", net), store |-> store, exchanged |-> 1]

\* a failed token acquisition swallowed by the constructor
WrapperFinishSwallowing(w, t) == [raised |-> NoExc, w |-> [w EXCEPT !.authorized = TRUE]]

\* the rest of __init__ once get_access_token has answered `t`: the exception that
\* leaves the constructor (NoExc: none) and self
WrapperFinish(w, t) ==
    IF t.raised # NoExc
    THEN [raised |-> t.raised, w |-> w]
    ELSE [raised |-> NoExc, w |-> [w EXCEPT !.authorized = TRUE]]

----------------------------------------------------------------------------
(* State machine *)

NoCtorArgs == [fn |-> "", module |-> ""]

NoTokenArgs == [a_id |-> "", a_secret |-> "", sandbox |-> FALSE, given |-> FALSE]

\* what a caller passes as api_limits: nothing, a fresh dict, a dict reused from an earlier call
ApiLimitsArgs ==
    {NotADict, Dict(<<>>),
     Dict(("api_requests_limit" :> IntVal(9)) @@ ("api_requests_remaining" :> IntVal(8)))}

\* what a caller passes as status: nothing, a fresh dict, a dict reused from an earlier call
StatusArgs == {NotADict, Dict(<<>>), Dict("code" :> IntVal(200))}

Clients ==
    [client_id : {None, "id"}, client_secret : {None, "secret"},
     storage_path : {"/tmp/"}, client_sandbox : BOOLEAN]

Init ==
    /\ client \in Clients
    /\ tokenStore = [k \in BOOLEAN |-> "absent"]
    /\ pc = "idle"
    /\ ctorArgs = NoCtorArgs
    /\ wrapper = NoWrapper
    /\ tokenArgs = NoTokenArgs
    /\ tokenRaised = NoExc
    /\ api_limits = NotADict
    /\ status = NotADict
    /\ api_limits0 = NotADict
    /\ status0 = NotADict
    /\ outcome = NoOutcome
    /\ result = NoResult
    /\ log = <<>>
    /\ tokenCalls = 0
    /\ exchanges = 0
    /\ invocations = 0
    /\ cachedAtStart = FALSE

\* _DigikeyApiWrapper(fn, module, self.client_id, self.client_secret, self.storage_path,
\* self.client_sandbox), up to the TokenHandler call, for a call that will pass al and st
StartCall(fn, module, al, st) ==
    /\ pc = "idle"
    /\ \E r \in {WrapperConfigure(fn, module, client)} :
          /\ wrapper' = r.w
          /\ result' = IF r.raised # NoExc THEN Raised(r.raised, "__init__") ELSE NoResult
          /\ pc' = IF r.raised # NoExc THEN "done" ELSE "token"
    /\ api_limits' = al
    /\ api_limits0' = al
    /\ status' = st
    /\ status0' = st
    /\ cachedAtStart' = (tokenStore[client.client_sandbox] = "valid")
    /\ ctorArgs' = [fn |-> fn, module |-> module]
    /\ tokenArgs' = NoTokenArgs
    /\ tokenRaised' = NoExc
    /\ outcome' = NoOutcome
    /\ log' = <<>>
    /\ tokenCalls' = 0
    /\ exchanges' = 0
    /\ invocations' = 0
    /\ UNCHANGED <<client, tokenStore>>

PublicOperation(name) ==
    /\ pc = "idle"
    /\ \E al \in ApiLimitsArgs, st \in StatusArgs :
        StartCall(PublicOperations[name].fn, PublicOperations[name].module, al, st)

keyword_search == PublicOperation("keyword_search")
product_details == PublicOperation("product_details")
digi_reel_pricing == PublicOperation("digi_reel_pricing")
suggested_parts == PublicOperation("suggested_parts")
status_salesorder_id == PublicOperation("status_salesorder_id")
salesorder_history == PublicOperation("salesorder_history")
batch_product_details == PublicOperation("batch_product_details")

\* _DigikeyApiWrapper constructed directly, with any module object
NewWrapper ==
    /\ pc = "idle"
    /\ \E module \in Modules, al \in ApiLimitsArgs, st \in StatusArgs :
        \E fn \in (IF module \in Families THEN FunctionsOf(module)
                   ELSE {PublicOperations[o].fn : o \in DOMAIN PublicOperations}) :
            StartCall(fn, module, al, st)

\* TokenHandler(a_id, a_secret, a_token_storage_path, version, sandbox)
TokenHandlerArgs(w, c) ==
    [a_id |-> w.x_digikey_client_id, a_secret |-> c.client_secret,
     sandbox |-> w.sandbox, given |-> TRUE]

\* the TokenHandler(...).get_access_token() call of __init__ and the rest of __init__
AcquireToken ==
    /\ pc = "token"
    /\ \E net \in NetOutcomes, args \in {TokenHandlerArgs(wrapper, client)} :
        \E t \in {get_access_token(tokenStore, args.sandbox, net)} :
        \E r \in {WrapperFinish(wrapper, t)} :
           /\ tokenArgs' = args
           /\ tokenRaised' = t.raised
           /\ tokenCalls' = tokenCalls + 1
           /\ exchanges' = exchanges + t.exchanged
           /\ tokenStore' = t.store
           /\ wrapper' = r.w
           /\ result' = IF r.raised # NoExc THEN Raised(r.raised, "__init__") ELSE NoResult
           /\ pc' = IF r.raised # NoExc THEN "done" ELSE "constructed"
    /\ UNCHANGED <<client, ctorArgs, api_limits, status, api_limits0, status0, outcome, log,
                   invocations, cachedAtStart>>

\* client.call_api_function(..., api_limits=api_limits, status=status)
CallApiFunction ==
    /\ pc = "constructed"
    /\ \E oc \in Outcomes(wrapper.module) :
        \E r \in {call_api_function(wrapper, oc, api_limits, status)} :
           /\ outcome' = oc
           /\ api_limits' = r.api_limits
           /\ status' = r.status
           /\ result' = r.result
           /\ log' = r.log
           /\ invocations' = invocations + r.invoked
    /\ pc' = "done"
    /\ UNCHANGED <<client, tokenStore, ctorArgs, wrapper, tokenArgs, tokenRaised, api_limits0,
                   status0, tokenCalls, exchanges, cachedAtStart>>

\* the public operation has returned or raised; the wrapper is dropped
Return ==
    /\ pc = "done"
    /\ pc' = "idle"
    /\ ctorArgs' = NoCtorArgs
    /\ wrapper' = NoWrapper
    /\ tokenArgs' = NoTokenArgs
    /\ tokenRaised' = NoExc
    /\ api_limits' = NotADict
    /\ status' = NotADict
    /\ api_limits0' = NotADict
    /\ status0' = NotADict
    /\ outcome' = NoOutcome
    /\ result' = NoResult
    /\ log' = <<>>
    /\ tokenCalls' = 0
    /\ exchanges' = 0
    /\ invocations' = 0
    /\ cachedAtStart' = FALSE
    /\ UNCHANGED <<client, tokenStore>>

\* between calls, a stored token passes its expiry
Expire ==
    /\ pc = "idle"
    /\ \E k \in BOOLEAN :
        /\ tokenStore[k] = "valid"
        /\ tokenStore' = [tokenStore EXCEPT ![k] = "expired"]
    /\ UNCHANGED <<client, pc, ctorArgs, wrapper, tokenArgs, tokenRaised, api_limits, status,
                   api_limits0, status0, outcome, result, log, tokenCalls, exchanges,
                   invocations, cachedAtStart>>

Next ==
    \/ keyword_search
    \/ product_details
    \/ digi_reel_pricing
    \/ suggested_parts
    \/ status_salesorder_id
    \/ salesorder_history
    \/ batch_product_details
    \/ NewWrapper
    \/ AcquireToken
    \/ CallApiFunction
    \/ Return
    \/ Expire

Spec == Init /\ [][Next]_vars

----------------------------------------------------------------------------
(* Properties *)

Done == pc = "done"
HasKey(sink, k) == sink.isdict /\ k \in DOMAIN sink.d
ErrorLogged(op) == \E i \in 1..Len(log) : log[i].level = "error" /\ log[i].op = op
ApiExceptionClasses == {RestApiException(m) : m \in Families}
SinksUntouched == api_limits = api_limits0 /\ status = status0
HeaderIsInt(h, k) == k \in DOMAIN h /\ PyInt(h[k]).ok

\* C1: in every family, when the underlying operation raises that family's ApiException
\* with status code c and the caller passed a dict as status, the caller gets that same
\* exception and finds status["code"] = c.
C1_StatusCapturedInEveryFamily ==
    (/\ Done
     /\ outcome.kind = "raises"
     /\ outcome.exc.cls \in ApiExceptionClasses
     /\ status0.isdict)
    => /\ result = Raised(outcome.exc, "call_api_function")
       /\ HasKey(status, "code")
       /\ status.d["code"] = IntVal(outcome.exc.status)

\* C2: when the response headers hold integer strings L and R in both rate-limit fields
\* and api_limits is a dict, the call returns the payload and the dict holds int(L) and
\* int(R); "11", "-1" and " 1" are 11, -1 and 1.
C2_RateLimitsStored ==
    (/\ Done
     /\ outcome.kind = "returns"
     /\ HeaderIsInt(outcome.headers, LimitKey)
     /\ HeaderIsInt(outcome.headers, RemainingKey)
     /\ api_limits0.isdict)
    => /\ result = Returned(outcome.payload)
       /\ HasKey(api_limits, "api_requests_limit")
       /\ HasKey(api_limits, "api_requests_remaining")
       /\ api_limits.d["api_requests_limit"] = IntVal(PyInt(outcome.headers[LimitKey]).val)
       /\ api_limits.d["api_requests_remaining"] =
              IntVal(PyInt(outcome.headers[RemainingKey]).val)
       /\ (outcome.headers[LimitKey] = <<"1", "1">>
              => api_limits.d["api_requests_limit"] = IntVal(11))
       /\ (outcome.headers[RemainingKey] = <<"-", "1">>
              => api_limits.d["api_requests_remaining"] = IntVal(0 - 1))
       /\ (outcome.headers[RemainingKey] = <<" ", "1">>
              => api_limits.d["api_requests_remaining"] = IntVal(1))

C2_Witness ==
    /\ Done
    /\ outcome.kind = "returns"
    /\ LimitKey \in DOMAIN outcome.headers /\ outcome.headers[LimitKey] = <<"1", "1">>
    /\ RemainingKey \in DOMAIN outcome.headers /\ outcome.headers[RemainingKey] = <<"1">>
    /\ api_limits0 = Dict(<<>>)
    /\ result.kind = "returned"
    /\ api_limits.d["api_requests_limit"] = IntVal(11)
    /\ api_limits.d["api_requests_remaining"] = IntVal(1)

\* C3: when a rate-limit field of the response headers is absent or no integer, the call
\* still returns, and a dict api_limits ends with both entries None.
C3_BothUnknown ==
    (/\ Done
     /\ outcome.kind = "returns"
     /\ ~(HeaderIsInt(outcome.headers, LimitKey) /\ HeaderIsInt(outcome.headers, RemainingKey))
     /\ api_limits0.isdict)
    => /\ result.kind = "returned"
       /\ HasKey(api_limits, "api_requests_limit")
       /\ HasKey(api_limits, "api_requests_remaining")
       /\ api_limits.d["api_requests_limit"] = PyNone
       /\ api_limits.d["api_requests_remaining"] = PyNone

\* the limit parsed, the remaining count malformed, into a dict that held older values
C3_Witness ==
    /\ Done
    /\ outcome.kind = "returns"
    /\ LimitKey \in DOMAIN outcome.headers /\ outcome.headers[LimitKey] = <<"1">>
    /\ RemainingKey \in DOMAIN outcome.headers /\ outcome.headers[RemainingKey] = <<"x">>
    /\ HasKey(api_limits0, "api_requests_limit")
    /\ result.kind = "returned"
    /\ api_limits.d["api_requests_limit"] = PyNone

\* C4: constructing the wrapper with client_id or client_secret None, or with a module
\* that is no API family, raises before any token acquisition or API operation, and for
\* an unrecognized module the error is ValueError("Invalid module provided").
C4_ConfigurationErrorBeforeIO ==
    (/\ Done
     /\ (client.client_id = None \/ client.client_secret = None
            \/ ctorArgs.module \notin Families))
    => /\ result.kind = "raised"
       /\ result.at = "__init__"
       /\ tokenCalls = 0 /\ exchanges = 0 /\ invocations = 0
       /\ (ctorArgs.module \notin Families
              => result.exc = Exc("ValueError", "Invalid module provided"))

\* the path segment of each API family
FamilyPath(module) ==
    CASE module = "digikey.v4.productinformation" -> "products"
      [] module = "digikey.v4.ordersupport" -> "OrderDetails"
      [] module = "digikey.v4.batchproductdetails" -> "BatchSearch"

\* C5: the configured host is https://api.digikey.com/p/v4, or
\* https://sandbox-api.digikey.com/p/v4 when the client's sandbox flag is set, with p the
\* family's path segment, and the sandbox flag given to TokenHandler is the one that
\* selected the host.
C5_HostMatchesSandbox ==
    wrapper # NoWrapper
    => /\ wrapper.host =
              <<IF client.client_sandbox THEN "https://sandbox-api.digikey.com"
                ELSE "https://api.digikey.com",
                FamilyPath(wrapper.module), "v4">>
       /\ (tokenArgs.given
              => tokenArgs.sandbox = (wrapper.host[1] = "https://sandbox-api.digikey.com"))

C5_Witness ==
    /\ tokenArgs.given
    /\ tokenArgs.sandbox
    /\ wrapper.module = OrderSupport
    /\ wrapper.host = <<"https://sandbox-api.digikey.com", "OrderDetails", "v4">>

\* C6: a call that starts with a non-expired token in the store for the client's
\* credentials and environment makes no exchange with the authorization endpoint; a call
\* that starts without one makes exactly one.
C6_ExchangeOnlyOnCacheMiss ==
    /\ tokenCalls <= 1
    /\ tokenCalls = 0 => exchanges = 0
    /\ tokenCalls = 1 => exchanges = (IF cachedAtStart THEN 0 ELSE 1)

C6_Witness ==
    /\ pc = "constructed"
    /\ cachedAtStart
    /\ tokenCalls = 1
    /\ exchanges = 0

\* C7: when token acquisition fails, the public operation raises that error, the
\* underlying operation is not invoked, no payload is returned and neither sink is written.
C7_AuthenticationErrorPropagates ==
    tokenRaised # NoExc
    => /\ Done
       /\ result = Raised(tokenRaised, "__init__")
       /\ result.payload = ""
       /\ invocations = 0
       /\ outcome = NoOutcome
       /\ SinksUntouched

C7_Witness ==
    /\ Done
    /\ tokenRaised.cls = "AuthenticationError"
    /\ result.exc.cls = "AuthenticationError"
    /\ api_limits0 = Dict(<<>>)
    /\ status0 = Dict(<<>>)

\* C8: for every 3-tuple the underlying operation returns, the payload is returned, a
\* dict status holds the status code whatever the headers were, and a dict api_limits
\* holds either two ints or two Nones; a sink that is no dict is left alone.
C8_ExtractionsIndependent ==
    (Done /\ outcome.kind = "returns")
    => /\ result = Returned(outcome.payload)
       /\ invocations = 1
       /\ IF status0.isdict
          THEN HasKey(status, "code") /\ status.d["code"] = IntVal(outcome.status_code)
          ELSE status = status0
       /\ IF api_limits0.isdict
          THEN /\ HasKey(api_limits, "api_requests_limit")
               /\ HasKey(api_limits, "api_requests_remaining")
               /\ (api_limits.d["api_requests_limit"].t = "int")
                      = (api_limits.d["api_requests_remaining"].t = "int")
          ELSE api_limits = api_limits0

\* a malformed remaining count did not keep the status code from being stored
C8_Witness ==
    /\ Done
    /\ outcome.kind = "returns"
    /\ RemainingKey \in DOMAIN outcome.headers /\ outcome.headers[RemainingKey] = <<"x">>
    /\ LimitKey \in DOMAIN outcome.headers /\ outcome.headers[LimitKey] = <<"1">>
    /\ api_limits0.isdict
    /\ status0 = Dict(<<>>)
    /\ status.d["code"] = IntVal(200)
    /\ result.kind = "returned"

\* C9 as stated: every error that reaches the caller of a public operation was preceded,
\* in that call, by an error-level log record naming the failed operation.
C9_EveryFatalErrorLogged ==
    (Done /\ result.kind = "raised") => ErrorLogged(ctorArgs.fn)

\* C9 as amended: every error call_api_function re-raises was preceded by an error-level
\* log record naming the wrapped operation; an error raised while the wrapper is
\* constructed reaches the caller with no log record of this layer.
C9_CallErrorsLogged ==
    (Done /\ result.kind = "raised")
    => IF result.at = "call_api_function"
       THEN ErrorLogged(wrapper.wrapped_function_name)
       ELSE result.at = "__init__" /\ log = <<>>

C9_Witness ==
    /\ Done
    /\ result.kind = "raised"
    /\ result.at = "call_api_function"
    /\ result.exc.cls = "urllib3.exceptions.MaxRetryError"
    /\ ErrorLogged("order_history_with_http_info")

\* C10: call_api_function invokes the underlying operation exactly once, every failure
\* of it reaches the caller, and after a failure that is no ApiException both sinks are
\* as they were passed in.
C10_NoRetryNoSwallow ==
    (Done /\ outcome # NoOutcome)
    => /\ invocations = 1
       /\ (outcome.kind = "raises" => result = Raised(outcome.exc, "call_api_function"))
       /\ (outcome.kind = "malformed" => result.kind = "raised")
       /\ ((outcome.kind = "malformed"
               \/ (outcome.kind = "raises" /\ outcome.exc.cls \notin ApiExceptionClasses))
              => SinksUntouched)

C10_Witness ==
    /\ Done
    /\ outcome.kind = "raises"
    /\ outcome.exc.cls = "urllib3.exceptions.MaxRetryError"
    /\ status0 = Dict("code" :> IntVal(200))
    /\ HasKey(api_limits0, "api_requests_limit")
    /\ result.kind = "raised"
    /\ invocations = 1

====
